---- MODULE Spec2Model ----
(***************************************************************************)
(* Hook pipeline of terminal_extensions/cli.py: the HookRegistry, the      *)
(* process_command pipeline (interceptors -> executor -> callbacks) and    *)
(* the TerminalSession read loop.                                          *)
(*                                                                         *)
(* Python strings that are commands or prefixes are sequences of           *)
(* characters, so that str.startswith is computed and not assumed.         *)
(* Optional[x] is <<>> for None and <<x>> for a value.                     *)
(***************************************************************************)
EXTENDS Integers, Sequences, FiniteSets, TLC

\* ---------------------------------------------------------------- bounds
\* Largest number of hooks (interceptors plus callbacks) registered by direct
\* calls of the registry.
MaxHooks == 2

\* The most files a hook directory holds, and the most register calls the
\* files of one directory make together.
MaxFiles == 2

MaxLoaded == 3

\* The most changes hooks make to the registry during one call.
MaxReentry == 1

\* ---------------------------------------------------------------- values
None == <<>>
Some(x) == <<x>>

\* Command lines a caller passes to process_command ("gs" ~ "git status").
Commands == { <<"g", "s">>, <<"l">> }

\* Prefix filters given at registration (None: applies to every command).
Prefixes == { None, Some(<<"g">>), Some(<<"l">>) }

\* Hook callables: "function" is a def/lambda (it has __name__); "partial" is
\* a callable object such as functools.partial or an instance with __call__
\* (it has no __name__ attribute).
Funcs == { "function", "partial" }

\* getattr(hook, "__name__") succeeds.
HasName(f) == f = "function"

\* What a hook may raise: an Exception subclass, or a BaseException that is
\* not an Exception (KeyboardInterrupt).
ExcKinds == { "Exception", "KeyboardInterrupt" }

\* `except Exception` catches it.
CaughtByExceptException(exc) == exc = "Exception"

\* str.startswith
StartsWith(s, p) == Len(p) <= Len(s) /\ SubSeq(s, 1, Len(p)) = p

\* ------------------------------------------------------- hook outcomes
RetBool(b) == [kind |-> "bool", b |-> b, s |-> <<>>, exc |-> "-"]
RetStr(s) == [kind |-> "str", b |-> TRUE, s |-> s, exc |-> "-"]
RetOther == [kind |-> "other", b |-> TRUE, s |-> <<>>, exc |-> "-"]
Raises(e) == [kind |-> "raise", b |-> TRUE, s |-> <<>>, exc |-> e]

\* Everything an interceptor can do when called: return a bool, a str, any
\* other object (None), or raise.
InterceptorOutcomes ==
    { RetBool(b) : b \in BOOLEAN } \cup { RetStr(s) : s \in Commands }
        \cup { RetOther } \cup { Raises(e) : e \in ExcKinds }

\* Everything a callback can do: return (its value is ignored) or raise.
CallbackOutcomes == { RetOther } \cup { Raises(e) : e \in ExcKinds }

\* --------------------------------------------------------------- executor
SpawnFailureCode == 1

\* What the child process does once spawned: exit status and the bytes it
\* writes to stdout and stderr ("hi" is 104 105; 255 is no valid UTF-8).
ChildRuns ==
    { [rc |-> 0, out |-> <<104, 105>>, err |-> <<>>],
      [rc |-> 1, out |-> <<>>, err |-> <<98>>],
      [rc |-> 2, out |-> <<255>>, err |-> <<>>] }

\* No child: subprocess.run could not start one.
NoChild == [rc |-> -1, out |-> <<>>, err |-> <<>>]

\* How one call of subprocess.run goes.
ExecOutcomes ==
    { [spawned |-> FALSE, child |-> NoChild] }
        \cup { [spawned |-> TRUE, child |-> c] : c \in ChildRuns }

\* text=True: the captured bytes are decoded strictly; the bytes that occur
\* are single-byte sequences, valid exactly when below 128.
Decodable(bytes) == \A k \in 1..Len(bytes) : bytes[k] < 128

\* The str the bytes decode to (its code points).
Decode(bytes) == [k \in 1..Len(bytes) |-> bytes[k]]

\* Messages str(e) of the exceptions subprocess.run raises.
SpawnMessage == <<115>>
DecodeMessage == <<100>>

\* Mutant: the output is collected whether or not capture was asked for.
ExecuteCommand_AlwaysCaptures(capture, spawned, child) ==
    IF ~spawned
    THEN [rc |-> SpawnFailureCode, out |-> None, err |-> Some(SpawnMessage)]
    ELSE IF Decodable(child.out) /\ Decodable(child.err)
         THEN [rc |-> child.rc, out |-> Some(Decode(child.out)),
               err |-> Some(Decode(child.err))]
         ELSE [rc |-> SpawnFailureCode, out |-> None, err |-> Some(DecodeMessage)]

\* Mutant: an exception of subprocess.run is reported with exit code 0.
ExecuteCommand_FailureIsSuccess(capture, spawned, child) ==
    IF ~spawned
    THEN [rc |-> 0, out |-> None, err |-> Some(SpawnMessage)]
    ELSE IF capture
         THEN IF Decodable(child.out) /\ Decodable(child.err)
              THEN [rc |-> child.rc, out |-> Some(Decode(child.out)),
                    err |-> Some(Decode(child.err))]
              ELSE [rc |-> 0, out |-> None, err |-> Some(DecodeMessage)]
         ELSE [rc |-> child.rc, out |-> None, err |-> None]

\* execute_command: `spawned` is whether subprocess.run started the child.
\* Any Exception of subprocess.run - the child could not be started, or its
\* captured output could not be decoded - ends in the except clause
\* (lines 229-232).
ExecuteCommand(capture, spawned, child) ==
    IF ~spawned
    THEN [rc |-> SpawnFailureCode, out |-> None, err |-> Some(SpawnMessage)]
    ELSE IF capture
         THEN IF Decodable(child.out) /\ Decodable(child.err)
              THEN [rc |-> child.rc, out |-> Some(Decode(child.out)),
                    err |-> Some(Decode(child.err))]
              ELSE [rc |-> SpawnFailureCode, out |-> None, err |-> Some(DecodeMessage)]
         ELSE [rc |-> child.rc, out |-> None, err |-> None]

ExecResults(capture) ==
    { ExecuteCommand(capture, o.spawned, o.child) : o \in ExecOutcomes }

NoResult == [rc |-> 0, out |-> None, err |-> None]

\* What process_command gives its caller.
Pending == [kind |-> "pending", res |-> NoResult, exc |-> "-"]
ReturnsNone == [kind |-> "none", res |-> NoResult, exc |-> "-"]
ReturnsResult(r) == [kind |-> "result", res |-> r, exc |-> "-"]
Propagates(e) == [kind |-> "raised", res |-> NoResult, exc |-> e]

\* ------------------------------------------------------------------ state
VARIABLES
    interceptors,      \* registry._interceptors: sequence of (prefix, func)
    callbacks,         \* registry._callbacks
    pc,                \* position inside process_command
    command,           \* process_command's argument
    capture_output,    \* process_command's argument
    modified_command,  \* local
    should_execute,    \* local
    ilist, i,          \* the copy get_interceptors() returned, and the loop index
    clist, j,          \* the copy get_callbacks() returned, and the loop index
    result,            \* (return_code, stdout, stderr) from execute_command
    ret,               \* what process_command returns or raises
    icalls,            \* history: interceptor invocations of this call
    ecalls,            \* history: execute_command invocations of this call
    ccalls,            \* history: callback invocations of this call
    diag,              \* history: lines printed to sys.stderr by this call
    running,           \* TerminalSession.running
    spc,               \* position inside TerminalSession.start
    last_input,        \* history: what the latest input() call of start() did
    ctor,              \* position inside TerminalSession.__init__, or how it ended
    reg_log,           \* history: the register calls made since the last clear()
    cleared,           \* history: the last change of the registry was clear()
    during,            \* history: what hooks did to the registry in the current call
    view,              \* the list a caller got from get_interceptors/get_callbacks
    lpc,               \* position inside load_hooks_from_directory
    path_exists,       \* directory_path.exists()
    nfiles,            \* how many files directory_path.glob("*.py") yields
    fidx,              \* the file the loop is at
    initial_interceptors,  \* local of load_hooks_from_directory
    initial_callbacks,     \* local of load_hooks_from_directory
    lret,              \* what load_hooks_from_directory returns or raises
    ldiag,             \* history: the files reported on sys.stderr by the loader
    lbefore,           \* history: the registry when the loader was called
    loaded,            \* history: the register calls made by the files
    evaluated,         \* history: the files executed, each with how it ended
    lcleared           \* history: a file called registry.clear()

registryVars == <<interceptors, callbacks>>
callVars == <<pc, command, capture_output, modified_command, should_execute,
              ilist, i, clist, j, result, ret, icalls, ecalls, ccalls, diag>>
sessionVars == <<running, spc, last_input, ctor>>
historyVars == <<reg_log, cleared, during>>
loaderVars == <<lpc, path_exists, nfiles, fidx, initial_interceptors, initial_callbacks, lret,
                ldiag, lbefore, loaded, evaluated, lcleared>>
extVars == <<historyVars, view, loaderVars>>
vars == <<registryVars, callVars, sessionVars, extVars>>

\* HookRegistry.__init__ and the locals of a call not yet made.
CallIdle ==
    /\ pc = "idle"
    /\ command = <<>>
    /\ capture_output = FALSE
    /\ modified_command = <<>>
    /\ should_execute = TRUE
    /\ ilist = <<>>
    /\ i = 0
    /\ clist = <<>>
    /\ j = 0
    /\ result = NoResult
    /\ ret = Pending
    /\ icalls = <<>>
    /\ ecalls = <<>>
    /\ ccalls = <<>>
    /\ diag = <<>>

\* input() not called yet.
NoInput == [kind |-> "none", text |-> <<>>]

\* No list handed out to a caller.
NoView == [kind |-> "none", items |-> <<>>, shared |-> FALSE, mutated |-> FALSE]

\* What load_hooks_from_directory gives its caller.
LoadPending == [kind |-> "pending", interceptors |-> 0, callbacks |-> 0, exc |-> "-"]
LoadCounts(a, b) == [kind |-> "counts", interceptors |-> a, callbacks |-> b, exc |-> "-"]
LoadRaises(e) == [kind |-> "raised", interceptors |-> 0, callbacks |-> 0, exc |-> e]

\* The locals of a call of load_hooks_from_directory not yet made.
LoadIdle ==
    /\ lpc = "idle"
    /\ path_exists = FALSE
    /\ nfiles = 0
    /\ fidx = 0
    /\ initial_interceptors = 0
    /\ initial_callbacks = 0
    /\ lret = LoadPending
    /\ ldiag = <<>>
    /\ lbefore = <<<<>>, <<>>>>
    /\ loaded = <<>>
    /\ evaluated = <<>>
    /\ lcleared = FALSE

Init ==
    /\ interceptors = <<>>
    /\ callbacks = <<>>
    /\ CallIdle
    /\ running = FALSE
    /\ spc = "new"
    /\ last_input = NoInput
    /\ ctor = "none"
    /\ reg_log = <<>>
    /\ cleared = FALSE
    /\ during = <<>>
    /\ view = NoView
    /\ LoadIdle

\* --------------------------------------------------------------- registry
\* Mutant: the new interceptor is put in front of the list.
RegisterInterceptor_Prepend(func, prefix) ==
    /\ interceptors' = <<[prefix |-> prefix, func |-> func]>> \o interceptors
    /\ UNCHANGED callbacks

RegisterInterceptor(func, prefix) ==
    /\ interceptors' = Append(interceptors, [prefix |-> prefix, func |-> func])
    /\ UNCHANGED callbacks

RegisterCallback(func, prefix) ==
    /\ callbacks' = Append(callbacks, [prefix |-> prefix, func |-> func])
    /\ UNCHANGED interceptors

\* Mutant: only the interceptors are removed.
Clear_InterceptorsOnly ==
    /\ interceptors' = <<>>
    /\ UNCHANGED callbacks

Clear ==
    /\ interceptors' = <<>>
    /\ callbacks' = <<>>

\* Mutant: the registry hands out its own list.
ListCopy_Alias(list) == [items |-> list, shared |-> TRUE]

\* `self._interceptors.copy()`, `self._callbacks.copy()`: a new list with the
\* same (prefix, func) tuples; `shared` tells whether the object returned is
\* the registry's own list.
ListCopy(list) == [items |-> list, shared |-> FALSE]

GetInterceptors == ListCopy(interceptors)

GetCallbacks == ListCopy(callbacks)

\* The registry's owner registers hooks before a session starts and between
\* direct calls of process_command.
DoRegisterInterceptor ==
    /\ pc = "idle"
    /\ spc = "new"
    /\ lpc = "idle"
    /\ Len(interceptors) + Len(callbacks) < MaxHooks
    /\ \E f \in Funcs, p \in Prefixes :
          /\ RegisterInterceptor(f, p)
          /\ reg_log' = Append(reg_log, [kind |-> "interceptor", prefix |-> p, func |-> f])
    /\ cleared' = FALSE
    /\ UNCHANGED <<during, callVars, sessionVars, view, loaderVars>>

DoRegisterCallback ==
    /\ pc = "idle"
    /\ spc = "new"
    /\ lpc = "idle"
    /\ Len(interceptors) + Len(callbacks) < MaxHooks
    /\ \E f \in Funcs, p \in Prefixes :
          /\ RegisterCallback(f, p)
          /\ reg_log' = Append(reg_log, [kind |-> "callback", prefix |-> p, func |-> f])
    /\ cleared' = FALSE
    /\ UNCHANGED <<during, callVars, sessionVars, view, loaderVars>>

DoClear ==
    /\ pc = "idle"
    /\ spc = "new"
    /\ lpc = "idle"
    /\ Len(interceptors) + Len(callbacks) > 0
    /\ Clear
    /\ reg_log' = <<>>
    /\ cleared' = TRUE
    /\ UNCHANGED <<during, callVars, sessionVars, view, loaderVars>>

\* A caller asks the registry for its interceptors.
ListInterceptors ==
    /\ pc = "idle"
    /\ spc = "new"
    /\ lpc = "idle"
    /\ view = NoView
    /\ view' = [kind |-> "interceptors", items |-> GetInterceptors.items,
                shared |-> GetInterceptors.shared, mutated |-> FALSE]
    /\ UNCHANGED <<registryVars, callVars, sessionVars, historyVars, loaderVars>>

\* A caller asks the registry for its callbacks.
ListCallbacks ==
    /\ pc = "idle"
    /\ spc = "new"
    /\ lpc = "idle"
    /\ view = NoView
    /\ view' = [kind |-> "callbacks", items |-> GetCallbacks.items,
                shared |-> GetCallbacks.shared, mutated |-> FALSE]
    /\ UNCHANGED <<registryVars, callVars, sessionVars, historyVars, loaderVars>>

\* A tuple a caller may put into the list it was given.
ForeignHook == [prefix |-> Some(<<"l">>), func |-> "function"]

\* The list operations a caller may apply to the list it was given.
ListMutations == { "append", "pop", "reverse", "clear" }

Reverse(list) == [k \in 1..Len(list) |-> list[Len(list) + 1 - k]]

Mutated(list, op) ==
    CASE op = "append" -> Append(list, ForeignHook)
      [] op = "pop" -> SubSeq(list, 1, Len(list) - 1)
      [] op = "reverse" -> Reverse(list)
      [] op = "clear" -> <<>>

\* The caller mutates the list it holds. A Python list that is the
\* registry's own object changes for the registry too.
MutateView ==
    /\ pc = "idle"
    /\ spc = "new"
    /\ lpc = "idle"
    /\ view.kind # "none"
    /\ \E op \in ListMutations :
          /\ op = "append" => Len(view.items) <= MaxHooks
          /\ op = "pop" => view.items # <<>>
          /\ Mutated(view.items, op) # view.items
          /\ view' = [view EXCEPT !.items = Mutated(view.items, op), !.mutated = TRUE]
          /\ IF view.shared /\ view.kind = "interceptors"
             THEN interceptors' = Mutated(view.items, op) /\ UNCHANGED callbacks
             ELSE IF view.shared /\ view.kind = "callbacks"
             THEN callbacks' = Mutated(view.items, op) /\ UNCHANGED interceptors
             ELSE UNCHANGED registryVars
    /\ UNCHANGED <<callVars, sessionVars, historyVars, loaderVars>>

\* The caller lets go of the list.
DropView ==
    /\ view # NoView
    /\ view' = NoView
    /\ UNCHANGED <<registryVars, callVars, sessionVars, historyVars, loaderVars>>

\* ---------------------------------------------- load_hooks_from_directory
\* The hooks the files of a directory register.
FileHooks ==
    { [kind |-> "interceptor", prefix |-> None, func |-> "function"],
      [kind |-> "callback", prefix |-> Some(<<"g">>), func |-> "function"] }

\* How the execution of a hook file ends: it runs through, or raises.
FileOutcomes == {"ok"} \cup ExcKinds

\* Mutant: the handler of the loop does not catch anything.
FileHandled_Never(exc) == FALSE

\* `except Exception as e:` around module_from_spec and exec_module.
FileHandled(exc) == CaughtByExceptException(exc)

\* Mutant: the loop is left after a file that failed.
AfterFailure_Break(f, n) == n + 1

\* `continue`: the loop goes on with the file after f.
AfterFailure(f, n) == f + 1

\* Mutant: the size of the registry after the pass.
NetCount_Gross(after, initial) == after

\* `len(registry.get_...()) - initial_...`
NetCount(after, initial) == after - initial

\* The call, up to the loop: the existence test, then the sizes of the
\* registry before any file is executed.
LoadCall ==
    /\ lpc = "idle"
    /\ pc = "idle"
    /\ spc = "new"
    /\ view = NoView
    /\ Len(interceptors) + Len(callbacks) <= MaxHooks
    /\ \E exists \in BOOLEAN, n \in 0..MaxFiles :
          /\ path_exists' = exists
          /\ IF ~exists
             THEN /\ lret' = LoadRaises("FileNotFoundError")
                  /\ lpc' = "done"
                  /\ UNCHANGED <<nfiles, fidx, initial_interceptors,
                                 initial_callbacks>>
             ELSE /\ initial_interceptors' = Len(GetInterceptors.items)
                  /\ initial_callbacks' = Len(GetCallbacks.items)
                  /\ nfiles' = n
                  /\ fidx' = 1
                  /\ lpc' = "files"
                  /\ UNCHANGED lret
    /\ lbefore' = <<interceptors, callbacks>>
    /\ UNCHANGED <<ldiag, loaded, evaluated, lcleared>>
    /\ UNCHANGED <<registryVars, callVars, historyVars, view>>

\* A direct call of load_hooks_from_directory(directory).
LoadStart ==
    /\ ctor # "loading"
    /\ LoadCall
    /\ UNCHANGED sessionVars

\* The loop takes the next file and starts executing its module.
FileBegin ==
    /\ lpc = "files"
    /\ fidx <= nfiles
    /\ lpc' = "exec"
    /\ UNCHANGED <<path_exists, nfiles, fidx, initial_interceptors, initial_callbacks,
                   lret, ldiag, lbefore, loaded, evaluated, lcleared>>
    /\ UNCHANGED <<registryVars, callVars, sessionVars, historyVars, view>>

\* The file's top-level code registers a hook (a decorator, or a direct call
\* of the registry).
FileRegister ==
    /\ lpc = "exec"
    /\ Len(loaded) < MaxLoaded
    /\ \E h \in FileHooks :
          /\ IF h.kind = "interceptor"
             THEN RegisterInterceptor(h.func, h.prefix)
             ELSE RegisterCallback(h.func, h.prefix)
          /\ reg_log' = Append(reg_log, h)
          /\ loaded' = Append(loaded, [file |-> fidx, kind |-> h.kind,
                                        prefix |-> h.prefix, func |-> h.func])
    /\ cleared' = FALSE
    /\ UNCHANGED <<lpc, path_exists, nfiles, fidx, initial_interceptors,
                   initial_callbacks, lret, ldiag, lbefore, evaluated, lcleared>>
    /\ UNCHANGED <<during, callVars, sessionVars, view>>

\* The file's top-level code calls registry.clear().
FileClear ==
    /\ lpc = "exec"
    /\ ~lcleared
    /\ Clear
    /\ reg_log' = <<>>
    /\ cleared' = TRUE
    /\ lcleared' = TRUE
    /\ UNCHANGED <<lpc, path_exists, nfiles, fidx, initial_interceptors,
                   initial_callbacks, lret, ldiag, lbefore, loaded, evaluated>>
    /\ UNCHANGED <<during, callVars, sessionVars, view>>

\* The execution of the file ends. An exception the handler catches is
\* reported on sys.stderr and the loop continues; any other leaves the call.
FileEnd ==
    /\ lpc = "exec"
    /\ \E o \in FileOutcomes :
          /\ evaluated' = Append(evaluated, [file |-> fidx, outcome |-> o])
          /\ IF o = "ok"
             THEN /\ fidx' = fidx + 1
                  /\ lpc' = "files"
                  /\ UNCHANGED <<ldiag, lret>>
             ELSE IF FileHandled(o)
             THEN /\ ldiag' = Append(ldiag, fidx)
                  /\ fidx' = AfterFailure(fidx, nfiles)
                  /\ lpc' = "files"
                  /\ UNCHANGED lret
             ELSE /\ lret' = LoadRaises(o)
                  /\ lpc' = "done"
                  /\ UNCHANGED <<ldiag, fidx>>
    /\ UNCHANGED <<path_exists, nfiles, initial_interceptors, initial_callbacks,
                   lbefore, loaded, lcleared>>
    /\ UNCHANGED <<registryVars, callVars, sessionVars, historyVars, view>>

\* The loop is over: the counts are computed and returned.
LoadFinish ==
    /\ lpc = "files"
    /\ fidx > nfiles
    /\ lret' = LoadCounts(NetCount(Len(GetInterceptors.items), initial_interceptors),
                          NetCount(Len(GetCallbacks.items), initial_callbacks))
    /\ lpc' = "done"
    /\ UNCHANGED <<path_exists, nfiles, fidx, initial_interceptors, initial_callbacks,
                   ldiag, lbefore, loaded, evaluated, lcleared>>
    /\ UNCHANGED <<registryVars, callVars, sessionVars, historyVars, view>>

\* The caller has taken what the call gave.
LoadReturn ==
    /\ lpc = "done"
    /\ ctor # "loading"
    /\ lpc' = "idle"
    /\ path_exists' = FALSE
    /\ nfiles' = 0
    /\ fidx' = 0
    /\ initial_interceptors' = 0
    /\ initial_callbacks' = 0
    /\ lret' = LoadPending
    /\ ldiag' = <<>>
    /\ lbefore' = <<<<>>, <<>>>>
    /\ loaded' = <<>>
    /\ evaluated' = <<>>
    /\ lcleared' = FALSE
    /\ UNCHANGED <<registryVars, callVars, sessionVars, historyVars, view>>

\* ------------------------------------------------------- process_command
\* Mutant: the prefix filter is tested against the rewritten command.
MatchSubject_Rewritten(cmd, modified) == modified

\* The string the prefix filter is tested against (lines 254 and 274).
MatchSubject(cmd, modified) == cmd

\* Mutant: the prefix filter is ignored.
Applies_Always(prefix, cmd, modified) == TRUE

\* `prefix is None or command.startswith(prefix)`
Applies(prefix, cmd, modified) ==
    IF prefix = None THEN TRUE ELSE StartsWith(MatchSubject(cmd, modified), prefix[1])

\* Mutant: the executor is given the original command.
ExecutorArg_Original(cmd, modified) == cmd

\* The argument of execute_command (line 270).
ExecutorArg(cmd, modified) == modified

\* Mutant: callbacks are given the command that was run.
CallbackArg_Rewritten(cmd, modified) == modified

\* The first argument of every callback (line 276).
CallbackArg(cmd, modified) == cmd

\* Mutant: a False result does not leave the loop.
BreaksChain_Never(b) == FALSE

\* `if not should_execute: break`
BreaksChain(b) == ~b

\* modified_command after an interceptor returned a str.
\* Mutant: the str an interceptor returns is dropped.
Rewritten_Dropped(modified, s) == modified

Rewritten(modified, s) == s

\* The except clauses of lines 265-266 and 277-278: a caught exception is
\* printed with the hook's __name__; reading a missing __name__ raises
\* AttributeError inside the handler, which leaves process_command.
HandlerOutcome(func, exc) ==
    IF ~CaughtByExceptException(exc) THEN Propagates(exc)
    ELSE IF ~HasName(func) THEN Propagates("AttributeError")
    ELSE Pending

ProcessStart(cmd, capture) ==
    /\ pc = "idle"
    /\ pc' = "interceptors"
    /\ command' = cmd
    /\ capture_output' = capture
    /\ modified_command' = cmd
    /\ should_execute' = TRUE
    /\ ilist' = interceptors
    /\ i' = 1
    /\ UNCHANGED <<clist, j, result, ret, icalls, ecalls, ccalls, diag>>
    /\ UNCHANGED registryVars

\* A direct call of process_command(command, capture_output).
CallProcess ==
    /\ spc = "new"
    /\ lpc = "idle"
    /\ view = NoView
    /\ \E cmd \in Commands, capture \in BOOLEAN : ProcessStart(cmd, capture)
    /\ UNCHANGED <<sessionVars, extVars>>

\* One iteration of `for prefix, interceptor in registry.get_interceptors()`
\* whose prefix does not match.
InterceptorSkipped ==
    /\ pc = "interceptors"
    /\ i <= Len(ilist)
    /\ ~Applies(ilist[i].prefix, command, modified_command)
    /\ i' = i + 1
    /\ UNCHANGED <<pc, command, capture_output, modified_command, should_execute,
                   ilist, clist, j, result, ret, icalls, ecalls, ccalls, diag>>
    /\ UNCHANGED <<registryVars, sessionVars, extVars>>

\* One iteration that invokes the interceptor, which returns or raises `o`.
InterceptorInvoked(o) ==
    /\ pc = "interceptors"
    /\ i <= Len(ilist)
    /\ Applies(ilist[i].prefix, command, modified_command)
    /\ icalls' = Append(icalls, [idx |-> i, arg |-> modified_command, o |-> o])
    /\ CASE o.kind = "bool" ->
              /\ should_execute' = o.b
              /\ IF BreaksChain(o.b)
                 THEN pc' = "execute" /\ i' = i
                 ELSE pc' = pc /\ i' = i + 1
              /\ UNCHANGED <<modified_command, ret, diag>>
         [] o.kind = "str" ->
              /\ modified_command' = Rewritten(modified_command, o.s)
              /\ i' = i + 1
              /\ UNCHANGED <<pc, should_execute, ret, diag>>
         [] o.kind = "other" ->
              /\ i' = i + 1
              /\ UNCHANGED <<pc, modified_command, should_execute, ret, diag>>
         [] o.kind = "raise" ->
              LET h == HandlerOutcome(ilist[i].func, o.exc) IN
              /\ IF h = Pending
                 THEN /\ diag' = Append(diag, [hook |-> "interceptor", idx |-> i])
                      /\ i' = i + 1
                      /\ UNCHANGED <<pc, ret>>
                 ELSE /\ ret' = h
                      /\ pc' = "done"
                      /\ UNCHANGED <<i, diag>>
              /\ UNCHANGED <<modified_command, should_execute>>
    /\ UNCHANGED <<command, capture_output, ilist, clist, j, result, ecalls, ccalls>>
    /\ UNCHANGED <<registryVars, sessionVars, extVars>>

InterceptorStep == \E o \in InterceptorOutcomes : InterceptorInvoked(o)

\* The interceptor loop ran out of hooks.
InterceptorsExhausted ==
    /\ pc = "interceptors"
    /\ i > Len(ilist)
    /\ pc' = "execute"
    /\ UNCHANGED <<command, capture_output, modified_command, should_execute,
                   ilist, i, clist, j, result, ret, icalls, ecalls, ccalls, diag>>
    /\ UNCHANGED <<registryVars, sessionVars, extVars>>

\* `if should_execute:` taken: execute_command runs, then get_callbacks().
Execute ==
    /\ pc = "execute"
    /\ should_execute
    /\ \E o \in ExecOutcomes :
          /\ result' = ExecuteCommand(capture_output, o.spawned, o.child)
          /\ ecalls' = Append(ecalls, [cmd |-> ExecutorArg(command, modified_command),
                                       capture |-> capture_output,
                                       spawned |-> o.spawned, child |-> o.child])
    /\ clist' = callbacks
    /\ j' = 1
    /\ pc' = "callbacks"
    /\ UNCHANGED <<command, capture_output, modified_command, should_execute,
                   ilist, i, ret, icalls, ccalls, diag>>
    /\ UNCHANGED <<registryVars, sessionVars, extVars>>

\* `if should_execute:` not taken: `return None`.
Blocked ==
    /\ pc = "execute"
    /\ ~should_execute
    /\ ret' = ReturnsNone
    /\ pc' = "done"
    /\ UNCHANGED <<command, capture_output, modified_command, should_execute,
                   ilist, i, clist, j, result, icalls, ecalls, ccalls, diag>>
    /\ UNCHANGED <<registryVars, sessionVars, extVars>>

CallbackSkipped ==
    /\ pc = "callbacks"
    /\ j <= Len(clist)
    /\ ~Applies(clist[j].prefix, command, modified_command)
    /\ j' = j + 1
    /\ UNCHANGED <<pc, command, capture_output, modified_command, should_execute,
                   ilist, i, clist, result, ret, icalls, ecalls, ccalls, diag>>
    /\ UNCHANGED <<registryVars, sessionVars, extVars>>

CallbackInvoked(o) ==
    /\ pc = "callbacks"
    /\ j <= Len(clist)
    /\ Applies(clist[j].prefix, command, modified_command)
    /\ ccalls' = Append(ccalls, [idx |-> j,
                                 cmd |-> CallbackArg(command, modified_command),
                                 res |-> result, o |-> o])
    /\ IF o.kind = "raise"
       THEN LET h == HandlerOutcome(clist[j].func, o.exc) IN
            IF h = Pending
            THEN /\ diag' = Append(diag, [hook |-> "callback", idx |-> j])
                 /\ j' = j + 1
                 /\ UNCHANGED <<pc, ret>>
            ELSE /\ ret' = h
                 /\ pc' = "done"
                 /\ UNCHANGED <<j, diag>>
       ELSE /\ j' = j + 1
            /\ UNCHANGED <<pc, ret, diag>>
    /\ UNCHANGED <<command, capture_output, modified_command, should_execute,
                   ilist, i, clist, result, icalls, ecalls>>
    /\ UNCHANGED <<registryVars, sessionVars, extVars>>

CallbackStep == \E o \in CallbackOutcomes : CallbackInvoked(o)

\* The value of `return return_code, stdout, stderr` (line 280).
ReturnValue(r) == ReturnsResult(r)

CallbacksExhausted ==
    /\ pc = "callbacks"
    /\ j > Len(clist)
    /\ ret' = ReturnValue(result)
    /\ pc' = "done"
    /\ UNCHANGED <<command, capture_output, modified_command, should_execute,
                   ilist, i, clist, j, result, icalls, ecalls, ccalls, diag>>
    /\ UNCHANGED <<registryVars, sessionVars, extVars>>

\* The locals of the finished call are discarded.
DiscardCall ==
    /\ pc' = "idle"
    /\ command' = <<>>
    /\ capture_output' = FALSE
    /\ modified_command' = <<>>
    /\ should_execute' = TRUE
    /\ ilist' = <<>>
    /\ i' = 0
    /\ clist' = <<>>
    /\ j' = 0
    /\ result' = NoResult
    /\ ret' = Pending
    /\ icalls' = <<>>
    /\ ecalls' = <<>>
    /\ ccalls' = <<>>
    /\ diag' = <<>>

\* The direct caller receives the value (or the exception).
ProcessReturn ==
    /\ pc = "done"
    /\ spc = "new"
    /\ DiscardCall
    /\ during' = <<>>
    /\ UNCHANGED <<registryVars, sessionVars, reg_log, cleared, view, loaderVars>>

PipelineStep ==
    \/ InterceptorSkipped
    \/ InterceptorStep
    \/ InterceptorsExhausted
    \/ Execute
    \/ Blocked
    \/ CallbackSkipped
    \/ CallbackStep
    \/ CallbacksExhausted

Next ==
    \/ DoRegisterInterceptor
    \/ DoRegisterCallback
    \/ DoClear
    \/ CallProcess
    \/ PipelineStep
    \/ ProcessReturn

Spec == Init /\ [][Next]_vars

\* The registry used through its whole interface, with commands processed
\* in between.
RegistryNext ==
    \/ DoRegisterInterceptor
    \/ DoRegisterCallback
    \/ DoClear
    \/ ListInterceptors
    \/ ListCallbacks
    \/ MutateView
    \/ DropView
    \/ CallProcess
    \/ PipelineStep
    \/ ProcessReturn

RegistrySpec == Init /\ [][RegistryNext]_vars

\* Hook directories loaded one after another into the same registry, which
\* so may already hold hooks when a load starts.
LoaderNext ==
    \/ DoClear
    \/ LoadStart
    \/ FileBegin
    \/ FileRegister
    \/ FileClear
    \/ FileEnd
    \/ LoadFinish
    \/ LoadReturn

LoaderSpec == Init /\ [][LoaderNext]_vars

\* ------------------------------------------------------- TerminalSession
\* Lines input() can return.
InputLines ==
    { <<" ">>, <<"E", "x", "i", "t">>, <<"q", "u", "i", "t", " ">>,
      <<"g", "s">>, <<" ", "l">> }

\* What input() does: return a line, or raise EOFError / KeyboardInterrupt.
InputEvents ==
    { [kind |-> "line", text |-> t] : t \in InputLines }
        \cup { [kind |-> "EOFError", text |-> <<>>],
               [kind |-> "KeyboardInterrupt", text |-> <<>>] }

IsSpace(c) == c = " "

\* str.strip()
RECURSIVE LStrip(_)
LStrip(s) == IF s # <<>> /\ IsSpace(Head(s)) THEN LStrip(Tail(s)) ELSE s

RECURSIVE RStrip(_)
RStrip(s) ==
    IF s # <<>> /\ IsSpace(s[Len(s)]) THEN RStrip(SubSeq(s, 1, Len(s) - 1)) ELSE s

Strip(s) == RStrip(LStrip(s))

\* str.lower() on the letters that occur.
LowerChar(c) ==
    CASE c = "E" -> "e" [] c = "X" -> "x" [] c = "I" -> "i" [] c = "T" -> "t"
      [] c = "Q" -> "q" [] c = "U" -> "u" [] OTHER -> c

Lower(s) == [k \in 1..Len(s) |-> LowerChar(s[k])]

\* `command.lower() in ("exit", "quit")`
\* Mutant: the comparison is made without lower-casing.
IsExitWord_CaseSensitive(s) ==
    s \in { <<"e", "x", "i", "t">>, <<"q", "u", "i", "t">> }

IsExitWord(s) == Lower(s) \in { <<"e", "x", "i", "t">>, <<"q", "u", "i", "t">> }

\* `except Exception` of start() (line 344) catches what process_command raised.
SessionCatches(exc) == exc \in {"Exception", "AttributeError"}

\* start(): self.running = True, then the loop.
SessionStart ==
    /\ spc = "new"
    /\ pc = "idle"
    /\ lpc = "idle"
    /\ view = NoView
    /\ running' = TRUE
    /\ spc' = "input"
    /\ UNCHANGED <<last_input, ctor, registryVars, callVars, extVars>>

\* `while self.running:` is false: start() returns.
SessionLoopExit ==
    /\ spc = "input"
    /\ ~running
    /\ spc' = "returned"
    /\ UNCHANGED <<running, last_input, ctor, registryVars, callVars, extVars>>

\* One pass of the loop body up to the call of process_command.
SessionInput(ev) ==
    /\ spc = "input"
    /\ running
    /\ last_input' = ev
    /\ UNCHANGED <<ctor, extVars>>
    /\ CASE ev.kind = "EOFError" ->
              /\ running' = FALSE
              /\ spc' = "returned"
              /\ UNCHANGED <<registryVars, callVars>>
         [] ev.kind = "KeyboardInterrupt" ->
              UNCHANGED <<running, spc, registryVars, callVars>>
         [] ev.kind = "line" ->
              LET cmd == Strip(ev.text) IN
              IF cmd = <<>>
              THEN UNCHANGED <<running, spc, registryVars, callVars>>
              ELSE IF IsExitWord(cmd)
              THEN /\ running' = FALSE
                   /\ spc' = "returned"
                   /\ UNCHANGED <<registryVars, callVars>>
              ELSE /\ ProcessStart(cmd, FALSE)
                   /\ spc' = "processing"
                   /\ UNCHANGED running

SessionRead == \E ev \in InputEvents : SessionInput(ev)

\* stop(), called by hook code while a command is being processed.
SessionStop ==
    /\ spc = "processing"
    /\ pc \in {"interceptors", "callbacks"}
    /\ running
    /\ running' = FALSE
    /\ UNCHANGED <<spc, last_input, ctor, registryVars, callVars, extVars>>

\* process_command came back to the loop body: a value, or an exception
\* that one of the except clauses of start() handles.
SessionAfterProcess ==
    /\ spc = "processing"
    /\ pc = "done"
    /\ IF ret.kind = "raised" /\ SessionCatches(ret.exc)
       THEN running' = FALSE /\ spc' = "returned"
       ELSE running' = running /\ spc' = "input"
    /\ DiscardCall
    /\ UNCHANGED <<last_input, ctor, registryVars, extVars>>

SessionNext ==
    \/ DoRegisterInterceptor
    \/ DoRegisterCallback
    \/ DoClear
    \/ SessionStart
    \/ SessionLoopExit
    \/ SessionRead
    \/ SessionStop
    \/ PipelineStep
    \/ SessionAfterProcess

SessionSpec == Init /\ [][SessionNext]_vars

\* ================================================================ claims
\* Interceptor k of the iterated copy was invoked in the current call.
InvokedI(k) == \E m \in 1..Len(icalls) : icalls[m].idx = k

\* Callback k of the iterated copy was invoked in the current call.
InvokedC(k) == \E m \in 1..Len(ccalls) : ccalls[m].idx = k

\* The original command starts with the hook's prefix, or it has none.
MatchesOriginal(h) ==
    IF h.prefix = None THEN TRUE
    ELSE /\ Len(h.prefix[1]) <= Len(command)
         /\ \A n \in 1..Len(h.prefix[1]) : h.prefix[1][n] = command[n]

\* The same test against any other text.
MatchesText(h, text) ==
    IF h.prefix = None THEN TRUE
    ELSE /\ Len(h.prefix[1]) <= Len(text)
         /\ \A n \in 1..Len(h.prefix[1]) : h.prefix[1][n] = text[n]

\* The text of the last str an invoked interceptor returned among the first
\* n invocations; the original command if none did.
RECURSIVE LastReplace(_)
LastReplace(n) ==
    IF n = 0 THEN command
    ELSE IF icalls[n].o.kind = "str" THEN icalls[n].o.s
    ELSE LastReplace(n - 1)

\* C1: short-circuit. Once an invoked interceptor has returned False, it is
\* the last interceptor invoked in the call (none registered after it runs),
\* execute_command is never invoked, no callback is invoked, and the call
\* returns None.
C1_ShortCircuit ==
    \A m \in 1..Len(icalls) :
        icalls[m].o = RetBool(FALSE) =>
            /\ m = Len(icalls)
            /\ \A k \in 1..Len(ilist) : k > icalls[m].idx => ~InvokedI(k)
            /\ ecalls = <<>>
            /\ ccalls = <<>>
            /\ pc \in {"execute", "done"}
            /\ (pc = "done" => ret = ReturnsNone)

\* C1 witness: a call returned None after the first of two applicable
\* interceptors returned False, with a callback registered.
C1_Witness ==
    /\ pc = "done"
    /\ ret = ReturnsNone
    /\ Len(interceptors) + Len(callbacks) = 2
    /\ icalls # <<>>
    /\ icalls[1].idx = 1
    /\ icalls[1].o = RetBool(FALSE)
    /\ \/ Len(ilist) = 2 /\ MatchesOriginal(ilist[2])
       \/ Len(callbacks) = 1 /\ MatchesOriginal(callbacks[1])

\* C2: rewrite propagation. Every invocation of execute_command is given the
\* text of the last str returned by an invoked interceptor (whatever
\* interceptors returned afterwards), or the original command when none
\* returned a str; a call that returns a result invoked it exactly once.
C2_RewritePropagation ==
    /\ \A e \in 1..Len(ecalls) : ecalls[e].cmd = LastReplace(Len(icalls))
    /\ (pc = "done" /\ ret.kind = "result" => Len(ecalls) = 1)
    /\ (pc = "callbacks" => Len(ecalls) = 1)

\* C2 witness: the first interceptor returned a str that differs from the
\* original, a later one returned True, and the executor got the rewrite.
C2_Witness ==
    /\ pc = "done"
    /\ ret.kind = "result"
    /\ Len(icalls) = 2
    /\ icalls[1].o.kind = "str"
    /\ icalls[1].o.s # command
    /\ icalls[2].o = RetBool(TRUE)
    /\ ecalls[1].cmd = icalls[1].o.s

\* C3: every callback invocation is given the original input of the call as
\* its command argument, whatever the interceptors substituted.
C3_CallbackGetsOriginal ==
    \A m \in 1..Len(ccalls) : ccalls[m].cmd = command

\* C3 witness: a callback ran in a call whose command had been rewritten.
C3_Witness ==
    /\ ccalls # <<>>
    /\ ecalls # <<>>
    /\ ecalls[1].cmd # command
    /\ \E m \in 1..Len(icalls) : icalls[m].o.kind = "str"

\* C4 as stated: in every call that came back to its caller without raising,
\* each registered hook ran if and only if the original command starts with
\* its prefix (or it has no prefix).
C4_InvokedIffPrefixMatches ==
    (pc = "done" /\ ret.kind \in {"none", "result"}) =>
        /\ \A k \in 1..Len(interceptors) :
              (k <= Len(ilist) /\ InvokedI(k)) <=> MatchesOriginal(interceptors[k])
        /\ \A k \in 1..Len(callbacks) :
              (k <= Len(clist) /\ InvokedC(k)) <=> MatchesOriginal(callbacks[k])

\* C4 amended: a hook runs only if the original command starts with its
\* prefix (or it has no prefix), at most once per call; in a call that
\* returns a result every such hook runs; in a blocked call every such
\* interceptor up to the one that returned False runs, and nothing after it.
C4_PrefixScoping ==
    /\ \A m \in 1..Len(icalls) : MatchesOriginal(ilist[icalls[m].idx])
    /\ \A m \in 1..Len(ccalls) : MatchesOriginal(clist[ccalls[m].idx])
    /\ \A m, n \in 1..Len(icalls) : icalls[m].idx = icalls[n].idx => m = n
    /\ \A m, n \in 1..Len(ccalls) : ccalls[m].idx = ccalls[n].idx => m = n
    /\ (pc = "done" /\ ret.kind = "result") =>
          /\ ilist = interceptors
          /\ clist = callbacks
          /\ \A k \in 1..Len(ilist) : MatchesOriginal(ilist[k]) => InvokedI(k)
          /\ \A k \in 1..Len(clist) : MatchesOriginal(clist[k]) => InvokedC(k)
    /\ (pc = "done" /\ ret.kind = "none") =>
          /\ icalls # <<>>
          /\ icalls[Len(icalls)].o = RetBool(FALSE)
          /\ \A k \in 1..icalls[Len(icalls)].idx :
                MatchesOriginal(ilist[k]) => InvokedI(k)
          /\ ccalls = <<>>

\* C4 witness: a call returned a result in which one registered hook ran and
\* another, whose prefix the command does not start with, did not.
C4_Witness ==
    /\ pc = "done"
    /\ ret.kind = "result"
    /\ \E k \in 1..Len(ilist) : ilist[k].prefix # None /\ InvokedI(k)
    /\ \E k \in 1..Len(clist) : clist[k].prefix # None /\ ~InvokedC(k)

\* C5: rewrites do not change which hooks apply. Once the command has been
\* rewritten, every interceptor or callback the loops have passed was invoked
\* exactly when the original command starts with its prefix - also when the
\* rewritten text does not start with it, or only the rewritten text does.
C5_ScopingIgnoresRewrites ==
    /\ \A k \in 1..Len(ilist) :
          (k < i /\ modified_command # command) =>
              (InvokedI(k) <=> MatchesOriginal(ilist[k]))
    /\ \A m \in 1..Len(icalls) :
          icalls[m].arg # command => MatchesOriginal(ilist[icalls[m].idx])
    /\ \A k \in 1..Len(clist) :
          (k < j /\ modified_command # command) =>
              (InvokedC(k) <=> MatchesOriginal(clist[k]))

\* C5 witness: after a rewrite, a hook whose prefix matches the original but
\* not the rewritten text has run.
C5_Witness ==
    /\ modified_command # command
    /\ \/ \E m \in 1..Len(icalls) :
             /\ icalls[m].arg # command
             /\ ilist[icalls[m].idx].prefix # None
             /\ ~MatchesText(ilist[icalls[m].idx], icalls[m].arg)
       \/ \E m \in 1..Len(ccalls) :
             /\ clist[ccalls[m].idx].prefix # None
             /\ ~MatchesText(clist[ccalls[m].idx], modified_command)

\* Every exception a hook has raised so far in the call is an error, that is
\* an instance of Exception (not a bare BaseException such as
\* KeyboardInterrupt).
OnlyErrorsRaised ==
    /\ \A m \in 1..Len(icalls) :
          icalls[m].o.kind = "raise" => icalls[m].o.exc = "Exception"
    /\ \A m \in 1..Len(ccalls) :
          ccalls[m].o.kind = "raise" => ccalls[m].o.exc = "Exception"

SomeInterceptorReturnedFalse ==
    \E m \in 1..Len(icalls) : icalls[m].o = RetBool(FALSE)

\* C6 as stated: an interceptor that raises an error counts as
\* Continue(true): the next interceptor invoked gets the same command text,
\* the call does not end with the error, every later applicable interceptor
\* runs unless one returns False, and unless one does the executor runs and
\* the call returns a result.
C6_InterceptorFailOpen ==
    (OnlyErrorsRaised /\ \E m \in 1..Len(icalls) : icalls[m].o.kind = "raise") =>
        /\ ret.kind # "raised"
        /\ \A m \in 1..Len(icalls) :
              (icalls[m].o.kind = "raise" /\ m < Len(icalls)) =>
                  icalls[m + 1].arg = icalls[m].arg
        /\ (pc = "done" /\ ~SomeInterceptorReturnedFalse) =>
              /\ \A k \in 1..Len(ilist) : MatchesOriginal(ilist[k]) => InvokedI(k)
              /\ Len(ecalls) = 1
              /\ ret.kind = "result"

\* C7 as stated: a callback that raises an error stops nothing: every later
\* applicable callback runs with the same arguments and the call returns
\* exactly what execute_command returned.
C7_CallbackIsolation ==
    (OnlyErrorsRaised /\ \E m \in 1..Len(ccalls) : ccalls[m].o.kind = "raise") =>
        /\ ret.kind # "raised"
        /\ \A m, n \in 1..Len(ccalls) :
              ccalls[m].cmd = ccalls[n].cmd /\ ccalls[m].res = ccalls[n].res
        /\ pc = "done" =>
              /\ \A k \in 1..Len(clist) : MatchesOriginal(clist[k]) => InvokedC(k)
              /\ ret = ReturnsResult(result)

\* C8 as stated: every error a hook raises is caught where the hook is
\* called and logged (one diagnostic line per error), and process_command
\* never ends by raising.
C8_HookErrorsCaughtAndLogged ==
    OnlyErrorsRaised =>
        /\ ret.kind # "raised"
        /\ (pc # "idle" =>
              Len(diag) = Cardinality({ m \in 1..Len(icalls) : icalls[m].o.kind = "raise" })
                        + Cardinality({ m \in 1..Len(ccalls) : ccalls[m].o.kind = "raise" }))

\* C9 as stated: whatever the hooks did while a command was processed, the
\* session loop goes on to read the next input afterwards, unless stop() was
\* called.
C9_HooksNeverEndSession ==
    [][(spc = "processing" /\ pc = "done" /\ running)
         => (spc' = "input" /\ running')]_vars

\* C10 as stated: a finished call returned None if and only if an invoked
\* interceptor returned False; otherwise, also when hooks raised errors, it
\* returned the result execute_command gave, unchanged.
C10_NoneIffBlocked ==
    (pc = "done" /\ OnlyErrorsRaised) =>
        IF SomeInterceptorReturnedFalse
        THEN ret = ReturnsNone
        ELSE Len(ecalls) = 1 /\ ret = ReturnsResult(result)

C16_CaptureOn ==
    \A e \in 1..Len(ecalls) :
        (ecalls[e].capture /\ ecalls[e].spawned) =>
            /\ result.out # None
            /\ result.err # None
            /\ result.rc = ecalls[e].child.rc

\* ------------------------------------- hooks that change the registry
\* The hooks a hook registers while it runs.
ReentrantHooks ==
    { [kind |-> "interceptor", prefix |-> None, func |-> "function"],
      [kind |-> "callback", prefix |-> None, func |-> "function"] }

\* Which loop of process_command is running the hooks.
Phase == IF pc = "callbacks" THEN "callbacks" ELSE "interceptors"

\* A hook of the current call has been invoked in the loop that is running
\* (or, for the interceptors, has just ended).
HookRunning ==
    \/ pc \in {"interceptors", "execute"} /\ icalls # <<>>
    \/ pc = "callbacks" /\ ccalls # <<>>

\* Mutant: the loop iterates the registry's own list.
Iterated_Live(copy, live) == live

\* The list a loop iterates is the copy get_interceptors() / get_callbacks()
\* returned when the loop began, whatever the registry's list is now.
Iterated(copy, live) == copy

\* A hook registers a hook while it runs.
HookRegisters ==
    /\ HookRunning
    /\ Len(during) < MaxReentry
    /\ Len(interceptors) + Len(callbacks) < MaxHooks
    /\ \E h \in ReentrantHooks :
          /\ IF h.kind = "interceptor"
             THEN RegisterInterceptor(h.func, h.prefix)
             ELSE RegisterCallback(h.func, h.prefix)
          /\ reg_log' = Append(reg_log, h)
          /\ during' = Append(during, [op |-> h.kind, phase |-> Phase,
                                        reg |-> <<interceptors, callbacks>>])
    /\ cleared' = FALSE
    /\ ilist' = IF Phase = "interceptors" THEN Iterated(ilist, interceptors') ELSE ilist
    /\ clist' = IF Phase = "callbacks" THEN Iterated(clist, callbacks') ELSE clist
    /\ UNCHANGED <<pc, command, capture_output, modified_command, should_execute,
                   i, j, result, ret, icalls, ecalls, ccalls, diag>>
    /\ UNCHANGED <<sessionVars, view, loaderVars>>

\* A hook calls registry.clear() while it runs.
HookClears ==
    /\ HookRunning
    /\ Len(during) < MaxReentry
    /\ Clear
    /\ reg_log' = <<>>
    /\ cleared' = TRUE
    /\ during' = Append(during, [op |-> "clear", phase |-> Phase,
                                  reg |-> <<interceptors, callbacks>>])
    /\ ilist' = IF Phase = "interceptors" THEN Iterated(ilist, interceptors') ELSE ilist
    /\ clist' = IF Phase = "callbacks" THEN Iterated(clist, callbacks') ELSE clist
    /\ UNCHANGED <<pc, command, capture_output, modified_command, should_execute,
                   i, j, result, ret, icalls, ecalls, ccalls, diag>>
    /\ UNCHANGED <<sessionVars, view, loaderVars>>

\* Direct calls of process_command whose hooks may change the registry.
ReentrantNext ==
    \/ DoRegisterInterceptor
    \/ DoRegisterCallback
    \/ CallProcess
    \/ PipelineStep
    \/ HookRegisters
    \/ HookClears
    \/ ProcessReturn

ReentrantSpec == Init /\ [][ReentrantNext]_vars

\* ------------------------------------------------- TerminalSession.__init__
\* Mutant: the constructor has no except clause.
CtorAbsorbs_Nothing(exc) == FALSE

\* `except FileNotFoundError: pass` around the call of the loader.
CtorAbsorbs(exc) == exc = "FileNotFoundError"

\* TerminalSession(hooks_directory=...): running is set False, and a
\* directory that was given (a true value) is loaded.
SessionConstruct ==
    /\ ctor # "loading"
    /\ spc = "new"
    /\ pc = "idle"
    /\ lpc = "idle"
    /\ running' = FALSE
    /\ UNCHANGED <<spc, last_input>>
    /\ \E given \in BOOLEAN :
          IF given
          THEN /\ LoadCall
               /\ ctor' = "loading"
          ELSE /\ ctor' = "created"
               /\ UNCHANGED <<registryVars, callVars, extVars>>

\* The loader came back to the constructor: counts are printed, a
\* FileNotFoundError is passed over, anything else leaves the constructor.
SessionConstructEnd ==
    /\ ctor = "loading"
    /\ lpc = "done"
    /\ ctor' = IF lret.kind = "raised" /\ ~CtorAbsorbs(lret.exc)
               THEN "raised"
               ELSE "created"
    /\ UNCHANGED <<running, spc, last_input, registryVars, callVars, extVars>>

\* Sessions constructed one after another over the same registry.
ConstructNext ==
    \/ DoClear
    \/ SessionConstruct
    \/ FileBegin
    \/ FileRegister
    \/ FileClear
    \/ FileEnd
    \/ LoadFinish
    \/ SessionConstructEnd
    \/ LoadReturn

ConstructSpec == Init /\ [][ConstructNext]_vars

\* --------------------------------------------------------- loader claims
\* The hooks of one kind that the files registered, in order.
RECURSIVE LoadedOf(_, _)
LoadedOf(kind, n) ==
    IF n = 0 THEN <<>>
    ELSE IF loaded[n].kind = kind
         THEN Append(LoadedOf(kind, n - 1),
                     [prefix |-> loaded[n].prefix, func |-> loaded[n].func])
         ELSE LoadedOf(kind, n - 1)

\* The file failed: its execution raised an error (class Exception, which
\* covers syntax errors, import errors and runtime errors).
Failed(e) == e.outcome = "Exception"

\* The file registered nothing.
RegisteredNothing(f) == \A k \in 1..Len(loaded) : loaded[k].file # f

LoadedCount(kind) == Cardinality({ k \in 1..Len(loaded) : loaded[k].kind = kind })

\* C12: net-count reporting. The counts returned are, per kind, the size of
\* the registry after the pass minus its size before; with no clear() in a
\* file that is the number of hooks the files registered, those of files
\* that failed afterwards included, and a file that registered nothing adds
\* nothing.
C12_NetCounts ==
    (lpc = "done" /\ lret.kind = "counts") =>
        /\ lret.interceptors = Len(interceptors) - Len(lbefore[1])
        /\ lret.callbacks = Len(callbacks) - Len(lbefore[2])
        /\ ~lcleared =>
              /\ lret.interceptors = LoadedCount("interceptor")
              /\ lret.callbacks = LoadedCount("callback")

\* C12 witness: the registry held a hook already, one file registered two
\* interceptors and a callback, the other failed before registering
\* anything, and the call returned 2 and 1.
C12_Witness ==
    /\ lpc = "done"
    /\ lret = LoadCounts(2, 1)
    /\ lbefore[1] # <<>>
    /\ nfiles = 2
    /\ \E f \in 1..2 :
          /\ Failed(evaluated[f])
          /\ RegisteredNothing(f)
          /\ evaluated[3 - f].outcome = "ok"

\* C12 witness of the other case: a file registered a hook and failed
\* afterwards, and the hook is counted.
C12_CountedBeforeFailing ==
    /\ lpc = "done"
    /\ lret = LoadCounts(1, 0)
    /\ nfiles = 1
    /\ Failed(evaluated[1])

C13_Missing ==
    /\ lpc = "done"
    /\ ~path_exists
    /\ lret = LoadRaises("FileNotFoundError")

\* ------------------------------------------------------ registry claims
\* The register calls of one kind since the last clear(), in call order, as
\* (prefix, func) pairs.
RECURSIVE Registered(_, _)
Registered(kind, n) ==
    IF n = 0 THEN <<>>
    ELSE IF reg_log[n].kind = kind
         THEN Append(Registered(kind, n - 1),
                     [prefix |-> reg_log[n].prefix, func |-> reg_log[n].func])
         ELSE Registered(kind, n - 1)

\* C17: registry ordering. The registry holds, per kind, exactly the pairs
\* registered since the last clear(), in registration order, with the prefix
\* given and duplicates kept; get_interceptors and get_callbacks return
\* exactly that sequence.
C17_RegistrationOrder ==
    /\ [](/\ interceptors = Registered("interceptor", Len(reg_log))
          /\ callbacks = Registered("callback", Len(reg_log))
          /\ Len(interceptors) + Len(callbacks) = Len(reg_log))
    /\ [][(view = NoView /\ view'.kind = "interceptors")
            => view'.items = Registered("interceptor", Len(reg_log))]_vars
    /\ [][(view = NoView /\ view'.kind = "callbacks")
            => view'.items = Registered("callback", Len(reg_log))]_vars

\* C17 witness: the same (prefix, func) pair was registered twice as an
\* interceptor and get_interceptors returned both, in order.
C17_Witness ==
    /\ view.kind = "interceptors"
    /\ ~view.mutated
    /\ Len(view.items) = 2
    /\ view.items[1] = view.items[2]
    /\ Len(reg_log) = 2
    /\ view.items = interceptors

\* C18: defensive copy. No append, removal, reordering or clearing that a
\* caller applies to a list it got from the registry changes the registry:
\* the registered hooks, and the hooks a later process_command iterates, stay
\* the registered ones in their order.
C18_DefensiveCopy ==
    /\ [][(view.kind # "none" /\ view'.kind = view.kind /\ view'.items # view.items)
            => (interceptors' = interceptors /\ callbacks' = callbacks)]_vars
    /\ [](view.mutated =>
            /\ interceptors = Registered("interceptor", Len(reg_log))
            /\ callbacks = Registered("callback", Len(reg_log)))
    /\ [](pc # "idle" => ilist = Registered("interceptor", Len(reg_log)))
    /\ [](pc \in {"callbacks"} => clist = Registered("callback", Len(reg_log)))

\* C18 witness: a caller changed the list it was given while hooks were
\* registered, and the registry still holds them.
C18_Witness ==
    /\ view.kind = "interceptors"
    /\ view.mutated
    /\ view.items = <<>>
    /\ Len(interceptors) = 2
    /\ interceptors[1] # interceptors[2]

\* C19: after clear() both lists are empty, whatever was registered, the
\* lists handed out are empty, and a command processed then invokes no hook
\* and runs the original command.
C19_ClearRemovesAll ==
    /\ [](cleared =>
            /\ interceptors = <<>>
            /\ callbacks = <<>>
            /\ (pc # "idle" => ilist = <<>> /\ icalls = <<>> /\ ccalls = <<>>)
            /\ (pc = "callbacks" => clist = <<>>)
            /\ (pc = "done" =>
                  /\ Len(ecalls) = 1
                  /\ ecalls[1].cmd = command
                  /\ ret = ReturnsResult(result)))
    /\ [][(cleared' /\ view = NoView /\ view' # NoView) => view'.items = <<>>]_vars

\* C19 witness: a registry that held hooks was cleared (clear() is only
\* modelled on a non-empty registry) and a command processed after it ran
\* unchanged to its result without any hook being invoked.
C19_Witness ==
    /\ cleared
    /\ pc = "done"
    /\ ret.kind = "result"
    /\ icalls = <<>>
    /\ ccalls = <<>>
    /\ ecalls[1].cmd = command

\* -------------------------------------------------------- session claims
\* The input lines that are blank, and those that spell exit or quit in some
\* letter case with blanks around them.
BlankLines == { <<" ">> }

ExitLines == { <<"E", "x", "i", "t">>, <<"q", "u", "i", "t", " ">> }

\* C20: session termination state. Whenever start() has returned, running
\* is false; a command is only being processed when the line read was
\* neither blank nor exit/quit in any letter case; stop() leaves running
\* false, and from then on running stays false and no further line is read.
C20_SessionTermination ==
    /\ [](spc = "returned" => ~running)
    /\ [](spc = "processing" =>
            /\ last_input.kind = "line"
            /\ last_input.text \notin BlankLines \cup ExitLines)
    /\ [][(last_input'.kind = "line" /\ last_input'.text \in BlankLines \cup ExitLines)
            => UNCHANGED <<pc, command, icalls, ecalls, ccalls>>]_vars
    /\ [][(spc = "processing" /\ spc' = "processing" /\ running' # running)
            => ~running']_vars
    /\ [][(spc # "new" /\ ~running) => (~running' /\ last_input' = last_input)]_vars

\* C20 witness: start() returned after exit was typed in mixed case.
C20_Witness ==
    /\ spc = "returned"
    /\ ~running
    /\ last_input = [kind |-> "line", text |-> <<"E", "x", "i", "t">>]

\* ----------------------------------------------------- loader count claim
\* C25: whatever the files of the directory do, calls of clear() included,
\* both counts returned are non-negative and are the numbers of interceptors
\* and of callbacks that the files registered during the pass.
C25_CountsAreRegistrations ==
    (lpc = "done" /\ lret.kind = "counts") =>
        /\ lret.interceptors >= 0
        /\ lret.callbacks >= 0
        /\ lret.interceptors = LoadedCount("interceptor")
        /\ lret.callbacks = LoadedCount("callback")

\* -------------------------------------------------------- pipeline claims
\* C22: chained rewrites. Every invoked interceptor receives the current
\* text: the str returned by the latest earlier invoked interceptor of the
\* call that returned one, or the original command when none did. So the
\* first invoked interceptor receives the original, and the local
\* modified_command is at every moment the latest rewrite.
C22_ChainedRewrites ==
    /\ \A m \in 1..Len(icalls) : icalls[m].arg = LastReplace(m - 1)
    /\ (icalls # <<>> => icalls[1].arg = command)
    /\ (pc \in {"interceptors", "execute", "callbacks"}
            => modified_command = LastReplace(Len(icalls)))

\* C22 witness: two interceptors rewrote the command one after the other;
\* the second received the first one's text, not the original, and the
\* executor received the second one's text.
C22_Witness ==
    /\ pc = "done"
    /\ Len(icalls) = 2
    /\ icalls[1].o.kind = "str"
    /\ icalls[1].o.s # command
    /\ icalls[1].arg = command
    /\ icalls[2].arg = icalls[1].o.s
    /\ icalls[2].o.kind = "str"
    /\ icalls[2].o.s # icalls[1].o.s
    /\ Len(ecalls) = 1
    /\ ecalls[1].cmd = icalls[2].o.s

\* C23: phase ordering within one call. Interceptors are only invoked
\* before the executor, the executor is invoked at most once and, in a call
\* that has ended in which no interceptor returned False, exactly once;
\* callbacks are only invoked after the executor has returned; hooks of one
\* kind are invoked in registration order; and a call starts with no event
\* of an earlier call pending. Hooks raise nothing but errors (class
\* Exception).
C23_PhaseOrdering ==
    /\ (pc = "interceptors" => ecalls = <<>> /\ ccalls = <<>>)
    /\ Len(ecalls) <= 1
    /\ (ccalls # <<>> => Len(ecalls) = 1 /\ pc \in {"callbacks", "done"})
    /\ \A m \in 1..Len(icalls) : \A n \in 1..Len(icalls) :
          m < n => icalls[m].idx < icalls[n].idx
    /\ \A m \in 1..Len(ccalls) : \A n \in 1..Len(ccalls) :
          m < n => ccalls[m].idx < ccalls[n].idx
    /\ (pc = "idle" => icalls = <<>> /\ ecalls = <<>> /\ ccalls = <<>>)
    /\ (pc = "done" /\ OnlyErrorsRaised /\ ~SomeInterceptorReturnedFalse)
          => Len(ecalls) = 1

\* ------------------------------------------------------ constructor claim
\* C21: a TerminalSession constructed with a hooks directory that does not
\* exist is created: the loader's FileNotFoundError does not leave the
\* constructor, the registry is what it was before, and running is False.
C21_MissingDirectoryAbsorbed ==
    (ctor # "loading" /\ lpc = "done" /\ ~path_exists) =>
        /\ lret = LoadRaises("FileNotFoundError")
        /\ ctor = "created"
        /\ ~running
        /\ interceptors = lbefore[1]
        /\ callbacks = lbefore[2]

\* C21 witness: the registry held hooks, the directory given did not exist,
\* and the constructor has ended with the session created.
C21_Witness ==
    /\ ctor = "created"
    /\ lpc = "done"
    /\ ~path_exists
    /\ lret = LoadRaises("FileNotFoundError")
    /\ interceptors # <<>>
    /\ callbacks # <<>>
    /\ ~running

\* ------------------------------------------------------- re-entrancy claim
\* C24: re-entrant registry mutation. The interceptors a call evaluates are
\* those registered when the call started: a hook that registers an
\* interceptor or calls clear() during the call changes the registry but not
\* the list the interceptor loop iterates. The callbacks a call evaluates
\* are those registered when the executor has returned, so a callback that
\* an interceptor registered runs in the same call and callbacks that
\* clear() removed during the interceptor phase do not; changes made during
\* the callback phase do not reach the callback loop of that call.
C24_ReentrantMutation ==
    /\ []((pc # "idle" /\ during # <<>> /\ during[1].phase = "interceptors")
            => ilist = during[1].reg[1])
    /\ [](\A m \in 1..Len(icalls) : icalls[m].idx \in 1..Len(ilist))
    /\ [](\A m \in 1..Len(ccalls) : ccalls[m].idx \in 1..Len(clist))
    /\ [][(pc = "idle" /\ pc' # "idle") => ilist' = interceptors]_vars
    /\ [][(pc # "idle" /\ pc' # "idle") => ilist' = ilist]_vars
    /\ [][(pc = "execute" /\ pc' = "callbacks") => clist' = callbacks]_vars
    /\ [][(pc = "callbacks" /\ pc' # "idle") => clist' = clist]_vars

\* C24 witness: the only interceptor registered a callback while it ran, and
\* that callback was invoked in the same call.
C24_Witness ==
    /\ pc = "done"
    /\ ret.kind = "result"
    /\ Len(during) = 1
    /\ during[1].op = "callback"
    /\ during[1].phase = "interceptors"
    /\ during[1].reg[2] = <<>>
    /\ Len(icalls) = 1
    /\ Len(ccalls) = 1
    /\ Len(clist) = 1

\* C24 witness: an interceptor called clear() while a callback was
\* registered; the call ran to its result and no callback was invoked.
C24_ClearedCallbacks ==
    /\ pc = "done"
    /\ ret.kind = "result"
    /\ Len(during) = 1
    /\ during[1].op = "clear"
    /\ during[1].phase = "interceptors"
    /\ during[1].reg[2] # <<>>
    /\ MatchesOriginal(during[1].reg[2][1])
    /\ ccalls = <<>>

\* C24 witness: an interceptor registered another interceptor while it ran;
\* the registry holds two and the call invoked one.
C24_LateInterceptor ==
    /\ pc = "done"
    /\ Len(during) = 1
    /\ during[1].op = "interceptor"
    /\ Len(interceptors) = 2
    /\ Len(ilist) = 1
    /\ Len(icalls) = 1
    /\ MatchesOriginal(interceptors[2])

====
